---- MODULE Spec2Model ----
(***************************************************************************)
(* Model of the SRI (Sustainability Readiness Index) core of trivity:      *)
(* the question catalog, the scoring engine, the AI overlay adapter and    *)
(* the assessment record lifecycle of app/services/sri_service.py and      *)
(* app/services/ai_service.py.                                             *)
(*                                                                         *)
(* Numbers.  The code computes with Python floats.  Here a real is an      *)
(* exact rational <<n, d>> in lowest terms with d > 0.  The accumulators   *)
(* of the scoring loop (sums of 150.0, 100.0, 0.0 and of 1.5, 1.0) are     *)
(* exact in binary floating point, so only the final divisions round, by   *)
(* at most one unit in the last place.                                     *)
(*                                                                         *)
(* Optional values (Python None) are sequences of length 0 or 1.           *)
(* A Python dict is a function; the empty dict is the empty function.      *)
(***************************************************************************)
EXTENDS Integers, Sequences, FiniteSets, TLC

----------------------------------------------------------------------------
(* Exact rational arithmetic *)

Abs(x) == IF x < 0 THEN -x ELSE x

RECURSIVE Gcd(_, _)
Gcd(a, b) == IF b = 0 THEN a ELSE Gcd(b, a % b)

\* the rational n/d in lowest terms, d > 0
R(n, d) ==
    LET g == Gcd(Abs(n), Abs(d))
        s == IF d < 0 THEN -1 ELSE 1
    IN  <<(s * n) \div g, (s * d) \div g>>

RInt(k) == <<k, 1>>
RAdd(x, y) == R(x[1] * y[2] + y[1] * x[2], x[2] * y[2])
RMul(x, y) == R(x[1] * y[1], x[2] * y[2])
RDiv(x, y) == R(x[1] * y[2], x[2] * y[1])
RGeq(x, y) == x[1] * y[2] >= y[1] * x[2]
RLt(x, y) == x[1] * y[2] < y[1] * x[2]
RGt(x, y) == x[1] * y[2] > y[1] * x[2]

----------------------------------------------------------------------------
(* 4.1 Question catalog *)

Categories == <<"general", "environment", "social", "governance">>
CategorySet == {Categories[i] : i \in 1..Len(Categories)}

YesNoOptions ==
    << [value |-> "yes", score |-> 100], [value |-> "no", score |-> 0] >>

Question(id, category, weight) ==
    [id |-> id, category |-> category, weight |-> weight, options |-> YesNoOptions]

_get_default_questions ==
    <<
       Question("general_1", "general", R(3, 2)),
       Question("general_2", "general", R(1, 1)),
       Question("general_3", "general", R(1, 1)),
       Question("general_4", "general", R(1, 1)),
       Question("environment_1", "environment", R(3, 2)),
       Question("environment_2", "environment", R(3, 2)),
       Question("environment_3", "environment", R(1, 1)),
       Question("environment_4", "environment", R(1, 1)),
       Question("environment_5", "environment", R(1, 1)),
       Question("social_1", "social", R(1, 1)),
       Question("social_2", "social", R(1, 1)),
       Question("social_3", "social", R(1, 1)),
       Question("social_4", "social", R(1, 1)),
       Question("social_5", "social", R(1, 1)),
       Question("social_6", "social", R(1, 1)),
       Question("social_7", "social", R(1, 1)),
       Question("social_8", "social", R(1, 1)),
       Question("governance_1", "governance", R(1, 1)),
       Question("governance_2", "governance", R(1, 1)),
       Question("governance_3", "governance", R(1, 1)),
       Question("governance_4", "governance", R(1, 1)),
       Question("governance_5", "governance", R(1, 1)),
       Question("governance_6", "governance", R(1, 1)),
       Question("governance_7", "governance", R(1, 1)),
       Question("governance_8", "governance", R(1, 1)),
       Question("governance_9", "governance", R(1, 1)),
       Question("governance_10", "governance", R(1, 1))
    >>

\* a get_questions that ignores its category argument
get_questions_Unfiltered(category) == _get_default_questions

\* get_questions(category): category = "" stands for None (no filter)
get_questions(category) ==
    LET questions == _get_default_questions
    IN  IF category # ""
        THEN SelectSeq(questions, LAMBDA q : q.category = category)
        ELSE questions

QuestionIds == {_get_default_questions[i].id : i \in 1..Len(_get_default_questions)}

\* question_map = {q['id']: q for q in questions}: a later question of the
\* same id replaces an earlier one
BuildQuestionMap(questions) ==
    [id \in {questions[i].id : i \in 1..Len(questions)} |->
        LET last == CHOOSE i \in 1..Len(questions) :
                        /\ questions[i].id = id
                        /\ \A j \in 1..Len(questions) : questions[j].id = id => j <= i
        IN  questions[last]]

----------------------------------------------------------------------------
(* 4.2 Scoring engine *)

\* the inner loop over question['options']: the score of the first option
\* whose value equals the answer, 0 when none does
RECURSIVE FindOptionScore(_, _, _)
FindOptionScore(options, answer, i) ==
    IF i > Len(options) THEN 0
    ELSE IF options[i].value = answer THEN options[i].score
    ELSE FindOptionScore(options, answer, i + 1)

ZeroAccumulators ==
    [c \in CategorySet |-> [total_weight |-> RInt(0), weighted_score |-> RInt(0)]]

\* an iteration that counts every question with weight 1
AccumulateAnswer_Unweighted(categories, question_id, answer, question_map) ==
    IF question_id \in DOMAIN question_map
    THEN LET question == question_map[question_id]
             category == question.category
             score    == FindOptionScore(question.options, answer, 1)
         IN  [categories EXCEPT ![category] =
                [weighted_score |-> RAdd(@.weighted_score, RInt(score)),
                 total_weight   |-> RAdd(@.total_weight, RInt(1))]]
    ELSE categories

\* an iteration that files an id the catalog does not have under general,
\* with weight 1 and no credit
AccumulateAnswer_UnknownAsGeneral(categories, question_id, answer, question_map) ==
    LET known    == question_id \in DOMAIN question_map
        category == IF known THEN question_map[question_id].category ELSE "general"
        weight   == IF known THEN question_map[question_id].weight ELSE RInt(1)
        score    == IF known
                    THEN FindOptionScore(question_map[question_id].options, answer, 1)
                    ELSE 0
    IN  [categories EXCEPT ![category] =
           [weighted_score |-> RAdd(@.weighted_score, RMul(RInt(score), weight)),
            total_weight   |-> RAdd(@.total_weight, weight)]]

\* an iteration that skips an answer matching no option of its question
AccumulateAnswer_SkipUnmatched(categories, question_id, answer, question_map) ==
    IF /\ question_id \in DOMAIN question_map
       /\ \E k \in 1..Len(question_map[question_id].options) :
             question_map[question_id].options[k].value = answer
    THEN LET question == question_map[question_id]
         IN  [categories EXCEPT ![question.category] =
                [weighted_score |-> RAdd(@.weighted_score,
                    RMul(RInt(FindOptionScore(question.options, answer, 1)),
                         question.weight)),
                 total_weight   |-> RAdd(@.total_weight, question.weight)]]
    ELSE categories

\* an iteration that adds the score without its weight
AccumulateAnswer_ScoreUnweighted(categories, question_id, answer, question_map) ==
    IF question_id \in DOMAIN question_map
    THEN LET question == question_map[question_id]
         IN  [categories EXCEPT ![question.category] =
                [weighted_score |-> RAdd(@.weighted_score,
                    RInt(FindOptionScore(question.options, answer, 1))),
                 total_weight   |-> RAdd(@.total_weight, question.weight)]]
    ELSE categories

\* an iteration that counts the question instead of adding its weight
AccumulateAnswer_WeightOne(categories, question_id, answer, question_map) ==
    IF question_id \in DOMAIN question_map
    THEN LET question == question_map[question_id]
         IN  [categories EXCEPT ![question.category] =
                [weighted_score |-> RAdd(@.weighted_score,
                    RMul(RInt(FindOptionScore(question.options, answer, 1)),
                         question.weight)),
                 total_weight   |-> RAdd(@.total_weight, RInt(1))]]
    ELSE categories

\* an iteration that scores the options in reverse: 100 minus the option's score
AccumulateAnswer_Inverted(categories, question_id, answer, question_map) ==
    IF question_id \in DOMAIN question_map
    THEN LET question == question_map[question_id]
             score    == 100 - FindOptionScore(question.options, answer, 1)
         IN  [categories EXCEPT ![question.category] =
                [weighted_score |-> RAdd(@.weighted_score,
                                         RMul(RInt(score), question.weight)),
                 total_weight   |-> RAdd(@.total_weight, question.weight)]]
    ELSE categories

\* an iteration that credits answering: an answered question scores 50 at least
AccumulateAnswer_AnsweredCredit(categories, question_id, answer, question_map) ==
    IF question_id \in DOMAIN question_map
    THEN LET question == question_map[question_id]
             found    == FindOptionScore(question.options, answer, 1)
             score    == IF found < 50 THEN 50 ELSE found
         IN  [categories EXCEPT ![question.category] =
                [weighted_score |-> RAdd(@.weighted_score,
                                         RMul(RInt(score), question.weight)),
                 total_weight   |-> RAdd(@.total_weight, question.weight)]]
    ELSE categories

\* one iteration of `for question_id, answer in answers.items()`
AccumulateAnswer(categories, question_id, answer, question_map) ==
    IF question_id \in DOMAIN question_map
    THEN LET question == question_map[question_id]
             category == question.category
             weight   == question.weight
             score    == FindOptionScore(question.options, answer, 1)
         IN  [categories EXCEPT ![category] =
                [weighted_score |-> RAdd(@.weighted_score, RMul(RInt(score), weight)),
                 total_weight   |-> RAdd(@.total_weight, weight)]]
    ELSE categories

\* the loop over answers.items(); the sums are exact, so the order in which
\* the dict is walked does not change the accumulators
RECURSIVE AccumulateAnswers(_, _, _, _)
AccumulateAnswers(todo, answers, question_map, categories) ==
    IF todo = {} THEN categories
    ELSE LET question_id == CHOOSE q \in todo : TRUE
         IN  AccumulateAnswers(todo \ {question_id}, answers, question_map,
                 AccumulateAnswer(categories, question_id, answers[question_id],
                                  question_map))

\* a final score that gives full marks to a category without answers
FinalCategoryScore_EmptyIsFull(acc) ==
    IF RGt(acc.total_weight, RInt(0))
    THEN RDiv(acc.weighted_score, acc.total_weight)
    ELSE RInt(100)

\* a final score that is the weighted sum, not divided by the weights
FinalCategoryScore_NoDivide(acc) ==
    IF RGt(acc.total_weight, RInt(0))
    THEN acc.weighted_score
    ELSE RInt(0)

\* lines 464-470: the final score of one category
FinalCategoryScore(acc) ==
    IF RGt(acc.total_weight, RInt(0))
    THEN RDiv(acc.weighted_score, acc.total_weight)
    ELSE RInt(0)

_calculate_category_scores(answers, question_map) ==
    LET categories == AccumulateAnswers(DOMAIN answers, answers, question_map,
                                        ZeroAccumulators)
    IN  [c \in CategorySet |-> FinalCategoryScore(categories[c])]

\* sum(category_scores.values())
RECURSIVE SumValues(_, _)
SumValues(d, keys) ==
    IF keys = {} THEN RInt(0)
    ELSE LET k == CHOOSE x \in keys : TRUE
         IN  RAdd(d[k], SumValues(d, keys \ {k}))

\* a total that averages only the categories with a non-zero score
TotalScore_SkipEmpty(category_scores) ==
    LET scored == {c \in DOMAIN category_scores : category_scores[c] # RInt(0)}
    IN  IF scored = {} THEN RInt(0)
        ELSE RDiv(SumValues(category_scores, scored), RInt(Cardinality(scored)))

\* a total that is the sum of the category scores
TotalScore_Sum(category_scores) ==
    SumValues(category_scores, DOMAIN category_scores)

\* total_score = sum(category_scores.values()) / len(category_scores)
TotalScore(category_scores) ==
    RDiv(SumValues(category_scores, DOMAIN category_scores),
         RInt(Cardinality(DOMAIN category_scores)))

\* SRIAssessment.calculate_total_score
calculate_total_score(category_scores) ==
    IF DOMAIN category_scores # {}
    THEN RDiv(SumValues(category_scores, DOMAIN category_scores),
              RInt(Cardinality(DOMAIN category_scores)))
    ELSE RInt(0)

\* a classification with strict comparisons
_get_trophy_level_Strict(total_score) ==
    IF RGt(total_score, RInt(75)) THEN "champion"
    ELSE IF RGt(total_score, RInt(50)) THEN "leader"
    ELSE IF RGt(total_score, RInt(25)) THEN "advocate"
    ELSE "none"

\* Python None (no trophy) is the tier "none"
_get_trophy_level(total_score) ==
    IF RGeq(total_score, RInt(75)) THEN "champion"
    ELSE IF RGeq(total_score, RInt(50)) THEN "leader"
    ELSE IF RGeq(total_score, RInt(25)) THEN "advocate"
    ELSE "none"

----------------------------------------------------------------------------
(* 4.4 AI overlay adapter *)

EmptyDict == [k \in {} |-> k]

\* a raised exception, as the value of the expression that raised it
Raise == [exception |-> TRUE]
IsRaise(v) == "exception" \in DOMAIN v

\* dict.get(key, default)
Get(d, key, default) == IF key \in DOMAIN d THEN d[key] ELSE default

\* str.title() of a category name
Title(category) ==
    CASE category = "general"     -> "General"
      [] category = "environment" -> "Environment"
      [] category = "social"      -> "Social"
      [] category = "governance"  -> "Governance"

\* the keys of category_scores in the order `category_scores.items()` walks
\* them: the insertion order, which is the order of Categories
ItemsInOrder(category_scores) ==
    SelectSeq(Categories, LAMBDA category : category \in DOMAIN category_scores)

(* SRIService (sri_service.py): the fallback of the "not available" branch *)

_identify_strengths(category_scores) ==
    LET hits == SelectSeq(ItemsInOrder(category_scores),
                          LAMBDA category : RGeq(category_scores[category], RInt(70)))
    IN  [i \in 1..Len(hits) |-> "Strong " \o Title(hits[i]) \o " practices"]

_identify_improvements(category_scores) ==
    LET hits == SelectSeq(ItemsInOrder(category_scores),
                          LAMBDA category : RLt(category_scores[category], RInt(50)))
    IN  [i \in 1..Len(hits) |-> "Improve " \o Title(hits[i]) \o " practices"]

_get_fallback_analysis(category_scores) ==
    LET total_score == TotalScore(category_scores)
        level == IF RGeq(total_score, RInt(80)) THEN "Advanced"
                 ELSE IF RGeq(total_score, RInt(60)) THEN "Intermediate"
                 ELSE IF RGeq(total_score, RInt(40)) THEN "Developing"
                 ELSE "Beginner"
    IN  [level |-> level,
         recommendation |-> "recommendation for " \o level,
         strengths |-> _identify_strengths(category_scores),
         improvements |-> _identify_improvements(category_scores)]

(* GeminiAIService (ai_service.py) *)

_identify_sri_strengths(category_scores) ==
    LET hits == SelectSeq(ItemsInOrder(category_scores),
                          LAMBDA category : RGeq(category_scores[category], RInt(70)))
        strengths == [i \in 1..Len(hits) |-> "Strong " \o Title(hits[i]) \o " practices"]
    IN  IF strengths # <<>> THEN strengths ELSE <<"Basic sustainability awareness">>

_identify_sri_weaknesses(category_scores) ==
    LET hits == SelectSeq(ItemsInOrder(category_scores),
                          LAMBDA category : RLt(category_scores[category], RInt(50)))
        weaknesses == [i \in 1..Len(hits) |->
                          "Needs improvement in " \o Title(hits[i]) \o " practices"]
    IN  IF weaknesses # <<>> THEN weaknesses ELSE <<"Overall sustainability maturity">>

\* the constant members of the fallback (priority_recommendations,
\* category_insights, next_steps, long_term_vision, industry_benchmark) are
\* represented by motivational_message
_get_fallback_sri_analysis(assessment_data) ==
    LET category_scores == Get(assessment_data, "category_scores", EmptyDict)
        total_score == Get(assessment_data, "total_score", RInt(0))
        level == IF RGeq(total_score, RInt(80)) THEN "Advanced"
                 ELSE IF RGeq(total_score, RInt(60)) THEN "Intermediate"
                 ELSE IF RGeq(total_score, RInt(40)) THEN "Developing"
                 ELSE "Beginner"
    IN  [level |-> level,
         overall_assessment |-> "assessment for " \o level,
         strengths |-> _identify_sri_strengths(category_scores),
         weaknesses |-> _identify_sri_weaknesses(category_scores),
         motivational_message |-> "Great progress on your sustainability journey!"]

(* A response text is a sequence of tokens: "{" and "}" are the braces,   *)
(* "m" is a well-formed list of members as the prompt asks for, "x" is    *)
(* any other text.                                                        *)
Tokens == {"{", "}", "m", "x"}

\* str.find(ch): 0-based index of the first occurrence, -1 when none
Find(text, ch) ==
    IF \E i \in 1..Len(text) : text[i] = ch
    THEN (CHOOSE i \in 1..Len(text) :
              text[i] = ch /\ \A j \in 1..(i - 1) : text[j] # ch) - 1
    ELSE -1

\* str.rfind(ch): 0-based index of the last occurrence, -1 when none
RFind(text, ch) ==
    IF \E i \in 1..Len(text) : text[i] = ch
    THEN (CHOOSE i \in 1..Len(text) :
              text[i] = ch /\ \A j \in (i + 1)..Len(text) : text[j] # ch) - 1
    ELSE -1

\* Python text[start:stop]: a negative index counts from the end, both
\* indices are clamped to the text
PySlice(text, start, stop) ==
    LET n == Len(text)
        Norm(k) == IF k < 0 THEN (IF n + k < 0 THEN 0 ELSE n + k)
                   ELSE (IF k > n THEN n ELSE k)
        a == Norm(start)
        b == Norm(stop)
    IN  IF a < b THEN SubSeq(text, a + 1, b) ELSE <<>>

ParsedMembers ==
    [level |-> "Expert",
     overall_assessment |-> "generated assessment",
     strengths |-> <<"generated strength">>,
     weaknesses |-> <<"generated weakness">>]

\* json.loads: the dict of a text that is one JSON object, Raise when it
\* raises json.JSONDecodeError
json_loads(json_str) ==
    IF json_str = <<"{", "}">> THEN EmptyDict
    ELSE IF json_str = <<"{", "m", "}">> THEN ParsedMembers
    ELSE Raise

_parse_sri_analysis_response(response_text) ==
    LET json_start == Find(response_text, "{")
        json_end   == RFind(response_text, "}") + 1
        json_str   == PySlice(response_text, json_start, json_end)
        parsed     == json_loads(json_str)
    IN  IF IsRaise(parsed)
        THEN _get_fallback_sri_analysis(EmptyDict)
        ELSE parsed

\* self.model.generate_content(prompt) followed by response.text: generated
\* is <<text>>, or <<>> when either raises
GenerateContent(generated) ==
    IF generated = <<>> THEN Raise ELSE [text |-> generated[1]]

analyze_sri_assessment(assessment_data, available, generated) ==
    IF ~available THEN _get_fallback_sri_analysis(assessment_data)
    ELSE LET response == GenerateContent(generated)
             analysis == IF IsRaise(response) THEN Raise
                         ELSE _parse_sri_analysis_response(response.text)
         IN  IF IsRaise(analysis)
             THEN _get_fallback_sri_analysis(assessment_data)
             ELSE analysis

\* an overlay step that calls the external service with no except branch
_generate_ai_analysis_sync_Unguarded(answers, category_scores, context, available, generated) ==
    IF available
    THEN LET response == GenerateContent(generated)
         IN  IF IsRaise(response) THEN Raise
             ELSE _parse_sri_analysis_response(response.text)
    ELSE _get_fallback_analysis(category_scores)

_generate_ai_analysis_sync(answers, category_scores, context, available, generated) ==
    LET analysis_data == [answers |-> answers,
                          category_scores |-> category_scores,
                          total_score |-> TotalScore(category_scores),
                          context |-> context]
        analysis == IF available
                    THEN analyze_sri_assessment(analysis_data, available, generated)
                    ELSE _get_fallback_analysis(category_scores)
    IN  IF IsRaise(analysis)
        THEN _get_fallback_analysis(category_scores)
        ELSE analysis

----------------------------------------------------------------------------
(* 4.3 Assessment record lifecycle: state *)

VARIABLES
    is_available,      \* ai_service.is_available, fixed when the service is built
    sri_collection,    \* the sri_assessments collection, in insertion order
    assessments_collection, \* the legacy assessments collection, in insertion order
    users_collection,  \* the users collection: user id -> user document
    clock,             \* datetime.utcnow() as stored by the database
    requests,          \* the calls of submit_assessment, in the order they began
    resp               \* the value the last read operation returned

vars ==
    <<is_available, sri_collection, assessments_collection, users_collection,
      clock, requests, resp>>

MaxSubmits == 2
MaxPipelineSubmits == 2
MaxClock == 1

Users == {"u1", "u2"}

\* the user whose submissions the submit pipeline follows
PipelineUsers == {"u1"}

Answers(ids, value) == [id \in ids |-> value]

\* answer mappings submitted in the submit pipeline
PipelineAnswers ==
    { EmptyDict,
      [general_1 |-> "yes", environment_1 |-> "no", social_1 |-> "yes"],
      [general_1 |-> "yes", environment_1 |-> "yes", environment_2 |-> "no",
       social_1 |-> "yes", unknown_q |-> "yes"] }

\* answer mappings submitted in the full lifecycle
LifecycleAnswers ==
    { [general_1 |-> "yes", environment_1 |-> "no"],
      Answers({"general_1", "environment_1", "social_1", "governance_1"}, "yes") }

SubmitContexts == { [industry |-> "Technology"] }

\* outcomes of the external call: <<>> when it raises, <<text>> otherwise
PipelineTexts == { <<"x">>, <<"{", "}">>, <<"x", "{", "m", "}", "x">> }
Generated == {<<>>} \cup {<<t>> : t \in PipelineTexts}

NoResp == [op |-> "none"]

\* registration (routes/auth.py) stores role 'user', is_active True,
\* profile_completed False and an empty sustainability_profile
NewUser ==
    [role |-> "user",
     is_active |-> TRUE,
     profile_completed |-> FALSE,
     sustainability_profile |-> EmptyDict]

Init ==
    /\ is_available \in BOOLEAN
    /\ sri_collection = <<>>
    /\ assessments_collection = <<>>
    /\ users_collection = [u \in Users |-> NewUser]
    /\ clock = 0
    /\ requests = <<>>
    /\ resp = NoResp

----------------------------------------------------------------------------
(* submit_assessment, in the steps at which other requests can interleave *)

\* lines 349-394: scoring, trophy, overlay and the assessment document
BuildAssessment(user_id, answers, context, available, generated, now) ==
    LET questions == get_questions("")
        question_map == BuildQuestionMap(questions)
        category_scores == _calculate_category_scores(answers, question_map)
        total_score == TotalScore(category_scores)
        trophy_level == _get_trophy_level(total_score)
        ai_analysis == _generate_ai_analysis_sync(answers, category_scores, context,
                                                  available, generated)
    IN  IF IsRaise(ai_analysis) THEN Raise ELSE
        [user_id |-> user_id,
         total_score |-> total_score,
         category_scores |-> category_scores,
         answers |-> answers,
         industry |-> Get(context, "industry", ""),
         company_size |-> Get(context, "company_size", ""),
         location |-> Get(context, "location", ""),
         trophy_level |-> trophy_level,
         has_assessment |-> TRUE,
         created_at |-> now,
         status |-> "completed",
         ai_analysis |-> ai_analysis]

\* the success result of lines 415-423
SuccessResult(assessment_id, doc) ==
    [success |-> TRUE,
     assessment_id |-> assessment_id,
     total_score |-> doc.total_score,
     category_scores |-> doc.category_scores,
     trophy_level |-> doc.trophy_level,
     has_assessment |-> TRUE,
     ai_analysis |-> doc.ai_analysis]

\* the result of the except branch, lines 425-427
FailureResult(error) == [success |-> FALSE, error |-> error]

\* an overlay step that calls the external service again after a failed call
ExternalCalls_Retry(available, generated) ==
    IF ~available THEN <<>>
    ELSE IF generated = <<>> THEN <<generated, generated>> ELSE <<generated>>

\* an overlay step that calls the external service without asking is_available
ExternalCalls_Unchecked(available, generated) == <<generated>>

\* the outcomes of the generate_content calls of one overlay step, in order:
\* sri_service line 497 and ai_service line 59 ask is_available, line 64 is the
\* only call, and both except branches return a fallback without calling
ExternalCalls(available, generated) ==
    IF available
    THEN IF ~available THEN <<>> ELSE <<generated>>
    ELSE <<>>

\* a call begins: everything up to the insert.  ai_call records what the
\* external service did: <<>> when it was not called, <<generated>> otherwise
SubmitBegin(user_id, answers, context, generated) ==
    /\ LET doc == BuildAssessment(user_id, answers, context, is_available,
                                  generated, clock)
       IN  requests' = Append(requests,
              [pc |-> IF IsRaise(doc) THEN "done" ELSE "insert",
               user_id |-> user_id,
               ai_call |-> ExternalCalls(is_available, generated),
               doc |-> doc,
               assessment_id |-> 0,
               result |-> IF IsRaise(doc) THEN <<FailureResult("exception")>>
                          ELSE <<>>])
    /\ resp' = NoResp
    /\ UNCHANGED <<is_available, assessments_collection, sri_collection, users_collection, clock>>

\* a save that keeps one record per user: it overwrites the user's record
InsertOneOk_Replace(r) ==
    /\ requests[r].pc = "insert"
    /\ LET user_id == requests[r].doc.user_id
           old == {i \in 1..Len(sri_collection) : sri_collection[i].doc.user_id = user_id}
           new_id == IF old = {} THEN Len(sri_collection) + 1 ELSE CHOOSE i \in old : TRUE
           record == [_id |-> new_id, request |-> r, doc |-> requests[r].doc]
       IN  /\ sri_collection' = IF old = {} THEN Append(sri_collection, record)
                                 ELSE [sri_collection EXCEPT ![new_id] = record]
           /\ requests' = [requests EXCEPT ![r].pc = "update",
                                           ![r].assessment_id = new_id]
    /\ resp' = NoResp
    /\ UNCHANGED <<is_available, assessments_collection, users_collection, clock>>

\* line 397, insert_one succeeds: the store assigns a fresh _id
InsertOneOk(r) ==
    /\ requests[r].pc = "insert"
    /\ LET new_id == Len(sri_collection) + 1
       IN  /\ sri_collection' = Append(sri_collection,
                  [_id |-> new_id, request |-> r, doc |-> requests[r].doc])
           /\ requests' = [requests EXCEPT ![r].pc = "update",
                                           ![r].assessment_id = new_id]
    /\ resp' = NoResp
    /\ UNCHANGED <<is_available, assessments_collection, users_collection, clock>>

\* line 397, insert_one raises: nothing is stored
InsertOneFail(r) ==
    /\ requests[r].pc = "insert"
    /\ requests' = [requests EXCEPT ![r].pc = "done",
                                    ![r].result = <<FailureResult("insert_one")>>]
    /\ resp' = NoResp
    /\ UNCHANGED <<is_available, assessments_collection, sri_collection, users_collection, clock>>

\* $set of a subdocument's fields: the named fields are written, the others kept
SetFields(d, fields) ==
    [k \in DOMAIN d \cup DOMAIN fields |-> IF k \in DOMAIN fields THEN fields[k] ELSE d[k]]

\* an update that stores a new user document holding only the written fields
UpdateUserOk_ReplaceDocument(r) ==
    /\ requests[r].pc = "update"
    /\ LET user_id == requests[r].doc.user_id
       IN  users_collection' = [users_collection EXCEPT ![user_id] =
              [profile_completed |-> TRUE,
               sustainability_profile |->
                  [last_sri_date |-> clock,
                   sri_score |-> requests[r].doc.total_score]]]
    /\ requests' = [requests EXCEPT ![r].pc = "done",
          ![r].result = <<SuccessResult(requests[r].assessment_id, requests[r].doc)>>]
    /\ resp' = NoResp
    /\ UNCHANGED <<is_available, assessments_collection, sri_collection, clock>>

\* lines 404-423, update_one succeeds and the success result is returned
UpdateUserOk(r) ==
    /\ requests[r].pc = "update"
    /\ LET user_id == requests[r].doc.user_id
       IN  users_collection' = [users_collection EXCEPT
              ![user_id].profile_completed = TRUE,
              ![user_id].sustainability_profile = SetFields(@,
                  [last_sri_date |-> clock,
                   sri_score |-> requests[r].doc.total_score])]
    /\ requests' = [requests EXCEPT ![r].pc = "done",
          ![r].result = <<SuccessResult(requests[r].assessment_id, requests[r].doc)>>]
    /\ resp' = NoResp
    /\ UNCHANGED <<is_available, assessments_collection, sri_collection, clock>>

\* an update_one failure that is not caught: the exception leaves submit
UpdateUserFail_Unhandled(r) ==
    /\ requests[r].pc = "update"
    /\ requests' = [requests EXCEPT ![r].pc = "done", ![r].result = <<Raise>>]
    /\ resp' = NoResp
    /\ UNCHANGED <<is_available, assessments_collection, sri_collection, users_collection, clock>>

\* lines 404-411, update_one raises: the except branch returns the failure
UpdateUserFail(r) ==
    /\ requests[r].pc = "update"
    /\ requests' = [requests EXCEPT ![r].pc = "done",
                                    ![r].result = <<FailureResult("update_one")>>]
    /\ resp' = NoResp
    /\ UNCHANGED <<is_available, assessments_collection, sri_collection, users_collection, clock>>

Tick ==
    /\ clock < MaxClock
    /\ clock' = clock + 1
    /\ resp' = NoResp
    /\ UNCHANGED <<is_available, assessments_collection, sri_collection, users_collection, requests>>

----------------------------------------------------------------------------
(* read operations *)

\* a query without the user_id filter: every stored assessment matches
UserDocs_AllUsers(user_id) ==
    {sri_collection[i] : i \in 1..Len(sri_collection)}

UserDocs(user_id) ==
    {sri_collection[i] : i \in {j \in 1..Len(sri_collection) :
                                     sri_collection[j].doc.user_id = user_id}}

\* a find_one without the sort: the first match in insertion order
get_latest_assessment_NoSort(user_id, found) ==
    IF ~found THEN {<<>>}
    ELSE IF UserDocs(user_id) = {} THEN {<<>>}
    ELSE {<<sri_collection[CHOOSE i \in 1..Len(sri_collection) :
                /\ sri_collection[i].doc.user_id = user_id
                /\ \A j \in 1..(i - 1) : sri_collection[j].doc.user_id # user_id]>>}

\* find_one({'user_id': ...}, sort=[('created_at', -1)]): the first document
\* of the sorted matches; among equal created_at the store may return any.
\* The set of values get_latest_assessment can return; found = FALSE is the
\* except branch (the read raised)
get_latest_assessment(user_id, found) ==
    IF ~found THEN {<<>>}
    ELSE IF UserDocs(user_id) = {} THEN {<<>>}
    ELSE {<<d>> : d \in {e \in UserDocs(user_id) :
                    \A f \in UserDocs(user_id) : f.doc.created_at <= e.doc.created_at}}

\* a find without the sort: the matches in insertion order
get_assessment_history_Unsorted(user_id, found) ==
    IF ~found THEN {<<>>}
    ELSE {SelectSeq(sri_collection, LAMBDA d : d.doc.user_id = user_id)}

\* find({'user_id': ...}).sort('created_at', -1): every ordering of the
\* matches with created_at descending; [] in the except branch
get_assessment_history(user_id, found) ==
    IF ~found THEN {<<>>}
    ELSE LET docs == UserDocs(user_id)
             n == Cardinality(docs)
         IN  {s \in [1..n -> docs] :
                /\ \A i, j \in 1..n : i # j => s[i] # s[j]
                /\ \A i \in 1..(n - 1) : s[i].doc.created_at >= s[i + 1].doc.created_at}

GetLatest(user_id) ==
    /\ \E found \in BOOLEAN :
         \E value \in get_latest_assessment(user_id, found) :
            resp' = [op |-> "get_latest", user_id |-> user_id, found |-> found,
                     value |-> value]
    /\ UNCHANGED <<is_available, assessments_collection, sri_collection, users_collection, clock, requests>>

GetHistory(user_id) ==
    /\ \E found \in BOOLEAN :
         \E value \in get_assessment_history(user_id, found) :
            resp' = [op |-> "get_history", user_id |-> user_id, found |-> found,
                     value |-> value]
    /\ UNCHANGED <<is_available, assessments_collection, sri_collection, users_collection, clock, requests>>

\* the summary of the else branch and of the except branch, lines 583-610
ZeroScores ==
    [total |-> RInt(0),
     categories |-> [general |-> RInt(0), environment |-> RInt(0),
                     social |-> RInt(0), governance |-> RInt(0)],
     trophy_level |-> "none",
     has_assessment |-> FALSE,
     last_assessment_date |-> <<>>,
     ai_analysis |-> EmptyDict]

\* the summary of a found assessment, lines 572-579
ScoresOf(assessment) ==
    [total |-> assessment.doc.total_score,
     categories |-> assessment.doc.category_scores,
     trophy_level |-> assessment.doc.trophy_level,
     has_assessment |-> assessment.doc.has_assessment,
     last_assessment_date |-> <<assessment.doc.created_at>>,
     ai_analysis |-> assessment.doc.ai_analysis]

\* a summary that is None when the user has no assessment
get_user_sri_scores_Absent(user_id, found) ==
    {IF assessment # <<>> THEN ScoresOf(assessment[1]) ELSE [none |-> TRUE] :
        assessment \in get_latest_assessment(user_id, found)}

\* a summary built from the record of the user that was stored first
get_user_sri_scores_FirstStored(user_id, found) ==
    {IF assessment # <<>> THEN ScoresOf(assessment[1]) ELSE ZeroScores :
        assessment \in get_latest_assessment_NoSort(user_id, found)}

\* the values get_user_sri_scores can return; found = FALSE when the read
\* inside get_latest_assessment raised (it then returned None)
get_user_sri_scores(user_id, found) ==
    {IF assessment # <<>> THEN ScoresOf(assessment[1]) ELSE ZeroScores :
        assessment \in get_latest_assessment(user_id, found)}

GetScores(user_id) ==
    /\ \E found \in BOOLEAN :
         \E value \in get_user_sri_scores(user_id, found) :
            resp' = [op |-> "get_scores", user_id |-> user_id, found |-> found,
                     value |-> value]
    /\ UNCHANGED <<is_available, assessments_collection, sri_collection, users_collection, clock, requests>>

----------------------------------------------------------------------------
(* the full lifecycle: concurrent submissions, the clock and the reads *)

Next ==
    \/ /\ Len(requests) < MaxSubmits
       /\ \E user_id \in Users, answers \in LifecycleAnswers,
             context \in SubmitContexts, generated \in {<<>>} :
             SubmitBegin(user_id, answers, context, generated)
    \/ \E r \in 1..Len(requests) : InsertOneOk(r)
    \/ \E r \in 1..Len(requests) : InsertOneFail(r)
    \/ \E r \in 1..Len(requests) : UpdateUserOk(r)
    \/ \E r \in 1..Len(requests) : UpdateUserFail(r)
    \/ Tick
    \/ \E user_id \in Users : GetLatest(user_id)
    \/ \E user_id \in Users : GetHistory(user_id)
    \/ \E user_id \in Users : GetScores(user_id)

Spec == Init /\ [][Next]_vars

(* the submit pipeline: concurrent submissions over every answer mapping  *)
(* of PipelineAnswers and every behaviour of the external service         *)

NextPipeline ==
    \/ /\ Len(requests) < MaxPipelineSubmits
       /\ \E user_id \in PipelineUsers, answers \in PipelineAnswers,
             context \in SubmitContexts, generated \in Generated :
             SubmitBegin(user_id, answers, context, generated)
    \/ \E r \in 1..Len(requests) : InsertOneOk(r)
    \/ \E r \in 1..Len(requests) : InsertOneFail(r)
    \/ \E r \in 1..Len(requests) : UpdateUserOk(r)
    \/ \E r \in 1..Len(requests) : UpdateUserFail(r)

SpecPipeline == Init /\ [][NextPipeline]_vars

----------------------------------------------------------------------------
(* the submit route of routes/sri_routes.py (routes/api.py has the same   *)
(* handler): the payload checks in front of submit_assessment             *)

MaxRouteSubmits == 2

\* what request.get_json() gives: it raises, returns None, or returns a dict
JsonRaises == [get_json |-> "raises"]
JsonNone == [get_json |-> "none"]
JsonDict(d) == [get_json |-> "dict", value |-> d]

RouteDicts ==
    { EmptyDict,
      [context |-> [industry |-> "Technology"]],
      [answers |-> EmptyDict, context |-> [industry |-> "Technology"]],
      [answers |-> [general_1 |-> "yes", environment_1 |-> "no"]],
      [answers |-> [general_1 |-> "yes"], context |-> [industry |-> "Technology"]] }

RouteData == {JsonRaises, JsonNone} \cup {JsonDict(d) : d \in RouteDicts}

\* a request on which submit_assessment was never called
NoDoc == [scored |-> FALSE]

\* the route answers without calling the service
RouteReject(user_id, data, error, code) ==
    /\ requests' = Append(requests,
           [pc |-> "done",
            user_id |-> user_id,
            ai_call |-> <<>>,
            doc |-> NoDoc,
            assessment_id |-> 0,
            result |-> <<[success |-> FALSE, error |-> error, status_code |-> code]>>,
            data |-> data])
    /\ resp' = NoResp
    /\ UNCHANGED <<is_available, assessments_collection, sri_collection, users_collection, clock>>

\* a route without the `if not answers` check
RouteSubmit_NoAnswersCheck(user_id, data, generated) ==
    IF data.get_json = "raises"
    THEN RouteReject(user_id, data, "exception", 500)
    ELSE IF data.get_json = "none" \/ DOMAIN data.value = {}
    THEN RouteReject(user_id, data, "No data provided", 400)
    ELSE SubmitBegin(user_id, Get(data.value, "answers", EmptyDict),
                     Get(data.value, "context", EmptyDict), generated)

\* lines 39-74 up to the call of sri_service.submit_assessment; the steps of
\* the call follow as InsertOneOk .. UpdateUserFail, and the route returns
\* the service's result
RouteSubmit(user_id, data, generated) ==
    IF data.get_json = "raises"
    THEN RouteReject(user_id, data, "exception", 500)
    ELSE IF data.get_json = "none" \/ DOMAIN data.value = {}
    THEN RouteReject(user_id, data, "No data provided", 400)
    ELSE LET answers == Get(data.value, "answers", EmptyDict)
             context == Get(data.value, "context", EmptyDict)
         IN  IF DOMAIN answers = {}
             THEN RouteReject(user_id, data, "No answers provided", 400)
             ELSE SubmitBegin(user_id, answers, context, generated)

\* the category arguments of the questions route: "" when the query has no
\* category, the four section names and a name the catalog does not have
QueryCategories == {"", "general", "environment", "social", "governance", "energy"}

\* GET /questions: the service's get_questions(category) is returned as is
GetQuestions(category) ==
    /\ resp' = [op |-> "get_questions", category |-> category,
                value |-> get_questions(category)]
    /\ UNCHANGED <<is_available, assessments_collection, sri_collection, users_collection, clock, requests>>

NextRoute ==
    \/ /\ Len(requests) < MaxRouteSubmits
       /\ \E user_id \in PipelineUsers, data \in RouteData, generated \in {<<>>} :
             RouteSubmit(user_id, data, generated)
    \/ \E r \in 1..Len(requests) : InsertOneOk(r)
    \/ \E r \in 1..Len(requests) : InsertOneFail(r)
    \/ \E r \in 1..Len(requests) : UpdateUserOk(r)
    \/ \E r \in 1..Len(requests) : UpdateUserFail(r)
    \/ \E category \in QueryCategories : GetQuestions(category)

SpecRoute == Init /\ [][NextRoute]_vars

----------------------------------------------------------------------------
(* the scoring engine alone: one call over a wide set of answer mappings *)

MaxAnswers == 4

AnswerValues == {"yes", "no", "maybe"}

\* catalog questions of weight 1.5 and 1.0, three of one category, and an
\* id the catalog does not have
ScoreIds ==
    {"general_1", "general_2", "general_3", "environment_1", "environment_2",
     "social_1", "governance_1", "unknown_q"}

\* the catalog ids of a category whose question has the given weight
IdsOf(category, weight) ==
    {_get_default_questions[i].id :
        i \in {j \in 1..Len(_get_default_questions) :
                  /\ _get_default_questions[j].category = category
                  /\ _get_default_questions[j].weight = weight}}

\* one general question of weight 1.5 answered yes and one environment
\* question of weight 1.0 answered no
ScenarioAnswers ==
    {[id \in {g, e} |-> IF id = g THEN "yes" ELSE "no"] :
        g \in IdsOf("general", R(3, 2)), e \in IdsOf("environment", R(1, 1))}

ScoreAnswers ==
    UNION {[ids -> AnswerValues] :
              ids \in {d \in SUBSET ScoreIds : Cardinality(d) <= MaxAnswers}}
    \cup {Answers(QuestionIds, "yes"), Answers(QuestionIds, "no")}
    \cup ScenarioAnswers

NextScore ==
    \/ /\ requests = <<>>
       /\ \E answers \in ScoreAnswers, context \in SubmitContexts :
             SubmitBegin("u1", answers, context, <<>>)
    \/ \E r \in 1..Len(requests) : InsertOneOk(r)
    \/ \E r \in 1..Len(requests) : UpdateUserOk(r)

SpecScore == Init /\ [][NextScore]_vars

(* the trophy classification alone, over totals in thousandths *)

MaxMilli == 100000

\* the total n/1000; _get_trophy_level only compares its argument, so the
\* fraction is left unreduced
Milli(n) == <<n, 1000>>

TrophyCall(total_score) ==
    /\ resp' = [op |-> "trophy", total_score |-> total_score,
                trophy_level |-> _get_trophy_level(total_score)]
    /\ UNCHANGED <<is_available, assessments_collection, sri_collection, users_collection, clock, requests>>

NextTrophy == resp = NoResp /\ \E n \in 0..MaxMilli : TrophyCall(Milli(n))

SpecTrophy == Init /\ [][NextTrophy]_vars

----------------------------------------------------------------------------
(* Properties *)

Done(r) == requests[r].pc = "done"
Succeeded(r) == Done(r) /\ requests[r].result[1].success
Failed(r) == Done(r) /\ ~requests[r].result[1].success

\* the unweighted mean of the four category scores, as a fraction
Mean4(cs) ==
    LET n == cs.general[1] * cs.environment[2] * cs.social[2] * cs.governance[2]
             + cs.environment[1] * cs.general[2] * cs.social[2] * cs.governance[2]
             + cs.social[1] * cs.general[2] * cs.environment[2] * cs.governance[2]
             + cs.governance[1] * cs.general[2] * cs.environment[2] * cs.social[2]
        d == 4 * cs.general[2] * cs.environment[2] * cs.social[2] * cs.governance[2]
    IN  <<n, d>>

\* equality of fractions
SameNumber(x, y) == x[1] * y[2] = y[1] * x[2]

\* C1: every persisted assessment and every successful submit result has
\* total_score equal to the unweighted mean of its four category scores,
\* however many questions were answered in each category.
C1_TotalIsMeanOfCategories ==
    /\ \A i \in 1..Len(sri_collection) :
          LET doc == sri_collection[i].doc
          IN  /\ DOMAIN doc.category_scores = CategorySet
              /\ SameNumber(doc.total_score, Mean4(doc.category_scores))
    /\ \A r \in 1..Len(requests) :
          Succeeded(r) =>
             LET result == requests[r].result[1]
             IN  /\ DOMAIN result.category_scores = CategorySet
                 /\ SameNumber(result.total_score, Mean4(result.category_scores))

\* a persisted record and its successful result whose categories were
\* answered by different numbers of questions and scored differently
C1_Witness ==
    \E r \in 1..Len(requests) :
        /\ Succeeded(r)
        /\ \E i \in 1..Len(sri_collection) : sri_collection[i].request = r
        /\ LET doc == requests[r].doc
           IN  /\ {"environment_1", "environment_2", "general_1"} \subseteq DOMAIN doc.answers
               /\ "general_2" \notin DOMAIN doc.answers
               /\ doc.category_scores.general = RInt(100)
               /\ doc.category_scores.environment = RInt(50)
               /\ doc.category_scores.governance = RInt(0)
               /\ doc.total_score = R(125, 2)

\* the catalog question of an id
CatalogQuestion(id) ==
    _get_default_questions[CHOOSE i \in 1..Len(_get_default_questions) :
                                _get_default_questions[i].id = id]

\* the score of the option an answer names, 0 when it names none
OptionScoreOf(question, answer) ==
    IF \E k \in 1..Len(question.options) : question.options[k].value = answer
    THEN question.options[CHOOSE k \in 1..Len(question.options) :
                              question.options[k].value = answer].score
    ELSE 0

RECURSIVE SumOver(_, _)
SumOver(S, f) ==
    IF S = {} THEN 0
    ELSE LET x == CHOOSE y \in S : TRUE
         IN  f[x] + SumOver(S \ {x}, f)

\* sum(score x weight) / sum(weight) over the answered catalog questions of a
\* category, with the weights doubled so that they are integers; 0 when
\* none is answered
WeightedMean(answers, category) ==
    LET answered == {id \in DOMAIN answers \cap QuestionIds :
                        CatalogQuestion(id).category = category}
        Twice(id) == (2 * CatalogQuestion(id).weight[1]) \div CatalogQuestion(id).weight[2]
        num == SumOver(answered,
                  [id \in answered |->
                      OptionScoreOf(CatalogQuestion(id), answers[id]) * Twice(id)])
        den == SumOver(answered, [id \in answered |-> Twice(id)])
    IN  IF answered = {} THEN <<0, 1>> ELSE <<num, den>>

\* C2: for every answer mapping the scoring engine returns, for each of the
\* four categories, sum(option score x weight) / sum(weight) over the
\* answered catalog questions of the category, and 0.0 for a category in
\* which no catalog question was answered.
C2_CategoryScoreIsWeightedMean ==
    \A r \in 1..Len(requests) :
        LET doc == requests[r].doc
        IN  /\ DOMAIN doc.category_scores = CategorySet
            /\ \A c \in CategorySet :
                  /\ SameNumber(doc.category_scores[c], WeightedMean(doc.answers, c))
                  /\ (DOMAIN doc.answers \cap
                        {id \in QuestionIds : CatalogQuestion(id).category = c} = {})
                     => doc.category_scores[c] = RInt(0)

\* two general questions of different weight answered differently, an
\* unknown id, and three categories without an answer
C2_Witness ==
    \E r \in 1..Len(requests) :
        LET doc == requests[r].doc
        IN  /\ doc.answers = [general_1 |-> "yes", general_2 |-> "no", unknown_q |-> "yes"]
            /\ doc.category_scores.general = RInt(60)
            /\ doc.category_scores.environment = RInt(0)
            /\ doc.category_scores.social = RInt(0)
            /\ doc.category_scores.governance = RInt(0)

\* C3: the trophy classification is a total function of total_score with
\* closed-open tiers: champion for total >= 75, leader for 50 <= total < 75,
\* advocate for 25 <= total < 50, none for total < 25; 75.0 gives champion,
\* 74.999 leader, 50.0 leader and 24.999 none.
C3_TrophyTiers ==
    resp.op = "trophy" =>
        LET milli == (resp.total_score[1] * 1000) \div resp.total_score[2]
            level == resp.trophy_level
        IN  /\ level \in {"champion", "leader", "advocate", "none"}
            /\ level = "champion" <=> milli >= 75000
            /\ level = "leader"   <=> (50000 <= milli /\ milli < 75000)
            /\ level = "advocate" <=> (25000 <= milli /\ milli < 50000)
            /\ level = "none"     <=> milli < 25000
            /\ milli = 75000 => level = "champion"
            /\ milli = 74999 => level = "leader"
            /\ milli = 50000 => level = "leader"
            /\ milli = 24999 => level = "none"

\* the classification of 74.999
C3_Witness ==
    /\ resp.op = "trophy"
    /\ resp.total_score = Milli(74999)
    /\ resp.trophy_level = "leader"

\* the assessment records persisted for a user
Persisted(u) ==
    {sri_collection[i] : i \in {j \in 1..Len(sri_collection) :
                                    sri_collection[j].doc.user_id = u}}

\* the records a submission has persisted
RecordsOf(r) == {i \in 1..Len(sri_collection) : sri_collection[i].request = r}

PersistenceErrors == {"insert_one", "update_one"}
PersistenceFailed(r) == Failed(r) /\ requests[r].result[1].error \in PersistenceErrors

\* C4: whenever submit returns {success: false, error} because the insert or
\* the user-profile update failed, nothing is partially committed: no record
\* of that submission is visible to get_latest or get_history, and no
\* denormalized user field was changed by it.
C4_NothingPartiallyCommitted ==
    \A r \in 1..Len(requests) :
        PersistenceFailed(r) =>
            /\ \A u \in Users :
                  /\ \A latest \in get_latest_assessment(u, TRUE) :
                        latest = <<>> \/ latest[1].request # r
                  /\ \A history \in get_assessment_history(u, TRUE) :
                        \A i \in 1..Len(history) : history[i].request # r
            /\ LET user == users_collection[requests[r].user_id]
               IN  \/ user = NewUser
                   \/ \E q \in 1..Len(requests) :
                         /\ Succeeded(q)
                         /\ requests[q].user_id = requests[r].user_id
                         /\ user.sustainability_profile.sri_score
                               = requests[q].result[1].total_score

\* C5: failure of the AI overlay step never blocks a submission: every
\* submit whose persistence operations succeed returns success=true and has
\* saved exactly one assessment record, whether the external service is
\* unavailable, raises, or returns unparsable text.
C5_OverlayFailureNeverBlocks ==
    \A r \in 1..Len(requests) :
        /\ Cardinality(RecordsOf(r)) <= 1
        /\ (Done(r) /\ ~PersistenceFailed(r)) =>
              /\ Succeeded(r)
              /\ Cardinality(RecordsOf(r)) = 1

\* when the response text holds no JSON object the parser accepts
Unparsable(text) ==
    IsRaise(json_loads(PySlice(text, Find(text, "{"), RFind(text, "}") + 1)))

Unavailable(r) == requests[r].ai_call = <<>>
CallRaised(r) == requests[r].ai_call = << <<>> >>
CallReturned(r, text) == requests[r].ai_call = << <<text>> >>
CallUnparsable(r) ==
    \E text \in PipelineTexts : CallReturned(r, text) /\ Unparsable(text)

\* two successful submissions, one whose external call raised and one whose
\* external call returned unparsable text, each with its single record
C5_Witness ==
    \E r, q \in 1..Len(requests) :
        /\ Succeeded(r) /\ CallRaised(r) /\ Cardinality(RecordsOf(r)) = 1
        /\ Succeeded(q) /\ CallUnparsable(q) /\ Cardinality(RecordsOf(q)) = 1

\* the fallback level of a total: Beginner < 40 <= Developing < 60 <=
\* Intermediate < 80 <= Advanced
LevelOf(total) ==
    IF total[1] >= 80 * total[2] THEN "Advanced"
    ELSE IF total[1] >= 60 * total[2] THEN "Intermediate"
    ELSE IF total[1] >= 40 * total[2] THEN "Developing"
    ELSE "Beginner"

\* C6: on every kind of failure of the external overlay call (service
\* unavailable, exception, unparsable response) the overlay attached to the
\* assessment is the rule-based fallback derived from that submission's
\* category scores, with the level given by the mean of the four category
\* scores: Beginner < 40, Developing 40-59, Intermediate 60-79, Advanced >= 80.
C6_FallbackLevelFromScores ==
    \A r \in 1..Len(requests) :
        (Unavailable(r) \/ CallRaised(r) \/ CallUnparsable(r)) =>
            LET doc == requests[r].doc
            IN  /\ "level" \in DOMAIN doc.ai_analysis
                /\ doc.ai_analysis.level = LevelOf(Mean4(doc.category_scores))

\* C7: the overlay of every persisted assessment and of every successful
\* submit result is a non-empty structure, whatever the external service
\* does: unavailable, raising, or returning any text.
C7_OverlayNeverEmpty ==
    /\ \A i \in 1..Len(sri_collection) :
          DOMAIN sri_collection[i].doc.ai_analysis # {}
    /\ \A r \in 1..Len(requests) :
          Succeeded(r) => DOMAIN requests[r].result[1].ai_analysis # {}

StrongMessage(c) == "Strong " \o Title(c) \o " practices"
WeakMessage(c) == "Needs improvement in " \o Title(c) \o " practices"

\* list holds message(c) for exactly the categories of hits, once each, or
\* one other (placeholder) entry when hits is empty
ListsExactly(list, hits, messages) ==
    IF hits = {}
    THEN Len(list) = 1 /\ list[1] \notin {messages[c] : c \in CategorySet}
    ELSE /\ Len(list) = Cardinality(hits)
         /\ {list[i] : i \in 1..Len(list)} = {messages[c] : c \in hits}

\* C8: when the AI service is unavailable the overlay holds a `strengths`
\* list with "Strong <category> practices" for exactly the categories scoring
\* >= 70 and a `weaknesses` list with "Needs improvement in <category>
\* practices" for exactly the categories scoring < 50, each with a generic
\* placeholder entry when no category qualifies.
C8_UnavailableStrengthsWeaknesses ==
    \A r \in 1..Len(requests) :
        Unavailable(r) =>
            LET overlay == requests[r].doc.ai_analysis
                cs == requests[r].doc.category_scores
                strong == {c \in CategorySet : cs[c][1] >= 70 * cs[c][2]}
                weak == {c \in CategorySet : cs[c][1] < 50 * cs[c][2]}
            IN  /\ "strengths" \in DOMAIN overlay
                /\ "weaknesses" \in DOMAIN overlay
                /\ ListsExactly(overlay.strengths, strong,
                                [c \in CategorySet |-> StrongMessage(c)])
                /\ ListsExactly(overlay.weaknesses, weak,
                                [c \in CategorySet |-> WeakMessage(c)])

GreatestCreatedAt(record, docs) ==
    \A d \in docs : d.doc.created_at <= record.doc.created_at

\* what C9 says of a value get_latest(u) returned
LatestIsRight(u, value) ==
    /\ value = <<>> <=> Persisted(u) = {}
    /\ value # <<>> =>
          /\ value[1] \in Persisted(u)
          /\ value[1].doc.user_id = u
          /\ GreatestCreatedAt(value[1], Persisted(u))

\* C9 as stated: after any interleaving of submit operations get_latest(u)
\* returns the record with the greatest created_at among the persisted
\* assessments of u, absent exactly when u has none, never a record of
\* another user.
C9_LatestAsStated ==
    resp.op = "get_latest" => LatestIsRight(resp.user_id, resp.value)

\* C9 (amended): when the persistence read succeeds, get_latest(u) returns a
\* record of u with the greatest created_at among the persisted assessments
\* of u, absent exactly when u has none, never a record of another user;
\* when the read fails it returns absent.
C9_LatestWhenReadSucceeds ==
    resp.op = "get_latest" =>
        /\ resp.found => LatestIsRight(resp.user_id, resp.value)
        /\ ~resp.found => resp.value = <<>>

\* two submissions of one user overlapped: the record inserted first has the
\* later created_at, and get_latest returns it
C9_Witness ==
    /\ resp.op = "get_latest"
    /\ resp.found
    /\ Len(sri_collection) = 2
    /\ sri_collection[1].doc.user_id = resp.user_id
    /\ sri_collection[2].doc.user_id = resp.user_id
    /\ sri_collection[1].doc.created_at > sri_collection[2].doc.created_at
    /\ sri_collection[1].request = 2
    /\ resp.value = <<sri_collection[1]>>

\* the value holds the records of u and only those, each exactly once, with
\* created_at descending
HistoryIsComplete(u, value) ==
    /\ {value[i] : i \in 1..Len(value)} = Persisted(u)
    /\ Len(value) = Cardinality(Persisted(u))
    /\ \A i, j \in 1..Len(value) :
          i < j => value[i].doc.created_at >= value[j].doc.created_at

\* C10 as stated: get_history(u) returns all persisted assessments of u and
\* only those, each exactly once, ordered by created_at descending; its
\* first element is the record get_latest(u) returns.
C10_HistoryAsStated ==
    resp.op = "get_history" =>
        /\ HistoryIsComplete(resp.user_id, resp.value)
        /\ resp.value # <<>> =>
              \A latest \in get_latest_assessment(resp.user_id, TRUE) :
                  latest = <<resp.value[1]>>

\* C10 (amended): when the persistence read succeeds, get_history(u) returns
\* all persisted assessments of u and only those, each exactly once, ordered
\* by created_at descending; its first element has the greatest created_at
\* of u's records, and is the record a successful get_latest(u) returns
\* whenever no other record of u has that created_at.  When the read fails
\* get_history returns the empty list.
C10_HistoryWhenReadSucceeds ==
    resp.op = "get_history" =>
        /\ ~resp.found => resp.value = <<>>
        /\ resp.found =>
              /\ HistoryIsComplete(resp.user_id, resp.value)
              /\ resp.value # <<>> =>
                    LET first == resp.value[1]
                        docs == Persisted(resp.user_id)
                    IN  /\ GreatestCreatedAt(first, docs)
                        /\ <<first>> \in get_latest_assessment(resp.user_id, TRUE)
                        /\ (\A d \in docs : d # first =>
                                d.doc.created_at # first.doc.created_at)
                           => get_latest_assessment(resp.user_id, TRUE) = {<<first>>}

\* a history of two records of one user, the later inserted one first
C10_Witness ==
    /\ resp.op = "get_history"
    /\ resp.found
    /\ Len(resp.value) = 2
    /\ resp.value[1].doc.created_at > resp.value[2].doc.created_at
    /\ resp.value[1]._id > resp.value[2]._id
    /\ get_latest_assessment(resp.user_id, TRUE) = {<<resp.value[1]>>}

SummaryKeys ==
    {"total", "categories", "trophy_level", "has_assessment",
     "last_assessment_date", "ai_analysis"}

\* C11: for a user with no persisted assessment get_scores_summary returns
\* a present structure with has_assessment = false, total 0.0 and the four
\* category scores 0.0; in no reachable state is the summary absent.
C11_SummaryOfNoAssessment ==
    resp.op = "get_scores" =>
        /\ DOMAIN resp.value = SummaryKeys
        /\ Persisted(resp.user_id) = {} =>
              /\ resp.value.has_assessment = FALSE
              /\ resp.value.total = RInt(0)
              /\ DOMAIN resp.value.categories = CategorySet
              /\ \A c \in CategorySet : resp.value.categories[c] = RInt(0)

\* the summary of a user without a record, read successfully while the
\* other user has a record
C11_Witness ==
    /\ resp.op = "get_scores"
    /\ resp.found
    /\ Persisted(resp.user_id) = {}
    /\ \E u \in Users : Persisted(u) # {}
    /\ resp.value.has_assessment = FALSE
    /\ resp.value.categories.social = RInt(0)

\* a step keeps every record already inserted, at its place and unchanged
RecordsKept ==
    /\ Len(sri_collection') >= Len(sri_collection)
    /\ \A i \in 1..Len(sri_collection) : sri_collection'[i] = sri_collection[i]

\* a step inserts at most one record; a record is inserted in status
\* completed by the insert step of one submission, which had none before
InsertedOnce ==
    /\ Len(sri_collection') <= Len(sri_collection) + 1
    /\ \A i \in (Len(sri_collection) + 1)..Len(sri_collection') :
          LET record == sri_collection'[i]
          IN  /\ record.doc.status = "completed"
              /\ record.request \in 1..Len(requests)
              /\ requests[record.request].pc = "insert"
              /\ requests'[record.request].pc = "update"
              /\ record.doc = requests[record.request].doc
              /\ \A j \in 1..Len(sri_collection) :
                    sri_collection[j].request # record.request

\* C12: assessment records are created exactly once per submission, already
\* in status completed, and are append-only: no step of submit, get_latest,
\* get_history or get_scores_summary modifies or deletes a record once
\* inserted, so the set of a user's records only grows.
C12_CreatedOnceAppendOnly ==
    [][/\ RecordsKept
       /\ InsertedOnce
       /\ \A u \in Users : Persisted(u) \subseteq Persisted(u)'
       /\ \A r \in 1..Len(requests') :
             (requests'[r].pc = "done" /\ requests'[r].result[1].success)
                => \E i \in 1..Len(sri_collection') : sri_collection'[i].request = r]_vars

\* two completed records of one user, the second inserted after the first,
\* with a read of that user's summary just returned
C12_Witness ==
    /\ resp.op = "get_scores"
    /\ Len(sri_collection) = 2
    /\ sri_collection[1].doc.user_id = resp.user_id
    /\ sri_collection[2].doc.user_id = resp.user_id
    /\ sri_collection[1].request # sri_collection[2].request
    /\ sri_collection[1].doc.status = "completed"
    /\ sri_collection[2].doc.status = "completed"
    /\ Succeeded(1) /\ Succeeded(2)

\* question_map as submit_assessment builds it, lines 355-356
CatalogQuestionMap == BuildQuestionMap(get_questions(""))

\* the answer mapping without the entries of ids
Without(answers, ids) == [id \in DOMAIN answers \ ids |-> answers[id]]

\* a submission that has returned has succeeded
NotFailed(r) == requests[r].pc = "done" => requests[r].result[1].success

\* C13: for every answer mapping, an entry whose question id is not in the
\* catalog changes no category score and not the total score compared with
\* the mapping without that entry, and does not make the submission fail.
C13_UnknownIdIgnored ==
    \A r \in 1..Len(requests) :
        LET doc == requests[r].doc
            unknown == DOMAIN doc.answers \ QuestionIds
            omitted == _calculate_category_scores(Without(doc.answers, unknown),
                                                  CatalogQuestionMap)
        IN  unknown # {} =>
               /\ doc.category_scores = omitted
               /\ doc.total_score = TotalScore(omitted)
               /\ NotFailed(r)

\* a successful submission that answered two catalog questions and an
\* unknown id
C13_Witness ==
    \E r \in 1..Len(requests) :
        /\ Succeeded(r)
        /\ requests[r].doc.answers
              = [general_1 |-> "yes", environment_1 |-> "no", unknown_q |-> "yes"]
        /\ requests[r].doc.category_scores.general = RInt(100)
        /\ requests[r].doc.total_score = RInt(25)

\* the answer to a catalog question names none of its options
Unmatched(id, answer) ==
    /\ id \in QuestionIds
    /\ \A k \in 1..Len(CatalogQuestion(id).options) :
          CatalogQuestion(id).options[k].value # answer

\* the value of a 0-score option of a catalog question
ZeroOptionValue(id) ==
    LET options == CatalogQuestion(id).options
    IN  options[CHOOSE k \in 1..Len(options) : options[k].score = 0].value

\* C14: an answer to a catalog question whose value matches none of the
\* question's options is not an error: it scores 0 and still adds the
\* question's weight, so the category and total scores are those of
\* answering that question with a 0-score option.
C14_UnmatchedValueScoresZero ==
    \A r \in 1..Len(requests) :
        LET doc == requests[r].doc
            bad == {id \in DOMAIN doc.answers : Unmatched(id, doc.answers[id])}
            zeroed == [id \in DOMAIN doc.answers |->
                          IF id \in bad THEN ZeroOptionValue(id) ELSE doc.answers[id]]
            expected == _calculate_category_scores(zeroed, CatalogQuestionMap)
        IN  bad # {} =>
               /\ doc.category_scores = expected
               /\ doc.total_score = TotalScore(expected)
               /\ NotFailed(r)

\* a successful submission with one matched and one unmatched answer in the
\* same category: the unmatched one weighs in with no credit
C14_Witness ==
    \E r \in 1..Len(requests) :
        /\ Succeeded(r)
        /\ requests[r].doc.answers = [general_1 |-> "yes", general_2 |-> "maybe"]
        /\ requests[r].doc.category_scores.general = RInt(60)

\* C15: for the empty answer set scoring returns the four category scores
\* 0.0 and total_score 0.0, the trophy of that total is the tier none, and
\* scoring does not fail.
C15_EmptyAnswersAllZero ==
    \A r \in 1..Len(requests) :
        LET doc == requests[r].doc
        IN  doc.answers = EmptyDict =>
               /\ DOMAIN doc.category_scores = CategorySet
               /\ \A c \in CategorySet : doc.category_scores[c] = RInt(0)
               /\ doc.total_score = RInt(0)
               /\ doc.trophy_level = "none"
               /\ NotFailed(r)

\* a successful submission of the empty mapping, persisted without trophy
C15_Witness ==
    \E r \in 1..Len(requests) :
        /\ Succeeded(r)
        /\ requests[r].doc.answers = EmptyDict
        /\ \E i \in 1..Len(sri_collection) :
              /\ sri_collection[i].request = r
              /\ sri_collection[i].doc.trophy_level = "none"
              /\ sri_collection[i].doc.total_score = RInt(0)

\* the highest score among a question's options
MaxOptionScore(question) ==
    CHOOSE m \in {question.options[k].score : k \in 1..Len(question.options)} :
        \A k \in 1..Len(question.options) : question.options[k].score <= m

\* every catalog question is answered with its highest-scoring option
AllHighest(answers) ==
    /\ QuestionIds \subseteq DOMAIN answers
    /\ \A id \in QuestionIds :
          OptionScoreOf(CatalogQuestion(id), answers[id])
             = MaxOptionScore(CatalogQuestion(id))

\* C16: when every question of every category is answered with its
\* highest-scoring option, every category score is 100, total_score is
\* 100.0 and the trophy is champion.
C16_AllHighestIsChampion ==
    \A r \in 1..Len(requests) :
        LET doc == requests[r].doc
        IN  AllHighest(doc.answers) =>
               /\ \A c \in CategorySet : doc.category_scores[c] = RInt(100)
               /\ doc.total_score = RInt(100)
               /\ doc.trophy_level = "champion"

\* the successful submission of yes to all 27 questions
C16_Witness ==
    \E r \in 1..Len(requests) :
        /\ Succeeded(r)
        /\ DOMAIN requests[r].doc.answers = QuestionIds
        /\ Cardinality(QuestionIds) = 27
        /\ \A id \in QuestionIds : requests[r].doc.answers[id] = "yes"
        /\ requests[r].result[1].total_score = RInt(100)
        /\ requests[r].result[1].trophy_level = "champion"

\* C17: exactly one general question of weight 1.5 answered yes and exactly
\* one environment question of weight 1.0 answered no give the category
\* scores general 100.0, environment 0.0, social 0.0, governance 0.0,
\* total_score 25.0 and the trophy advocate.
C17_ScenarioAdvocate ==
    \A r \in 1..Len(requests) :
        LET doc == requests[r].doc
        IN  (\E g \in IdsOf("general", R(3, 2)), e \in IdsOf("environment", R(1, 1)) :
                /\ DOMAIN doc.answers = {g, e}
                /\ doc.answers[g] = "yes"
                /\ doc.answers[e] = "no")
            => /\ doc.category_scores = [general |-> RInt(100), environment |-> RInt(0),
                                         social |-> RInt(0), governance |-> RInt(0)]
               /\ doc.total_score = RInt(25)
               /\ doc.trophy_level = "advocate"

\* the scenario with general_1 and environment_3, submitted successfully
C17_Witness ==
    \E r \in 1..Len(requests) :
        /\ Succeeded(r)
        /\ requests[r].doc.answers = [general_1 |-> "yes", environment_3 |-> "no"]
        /\ CatalogQuestion("general_1").weight = R(3, 2)
        /\ CatalogQuestion("environment_3").weight = R(1, 1)
        /\ requests[r].result[1].total_score = RInt(25)
        /\ requests[r].result[1].trophy_level = "advocate"

\* the catalog questions of a category that the mapping answers
AnsweredIn(answers, c) ==
    {id \in DOMAIN answers \cap QuestionIds : CatalogQuestion(id).category = c}

\* C18: when all answered options of a category have the same score s, the
\* category score is s, for every non-empty set of answered questions of
\* the category, whatever their number and weights.
C18_EqualScoresGiveThatScore ==
    \A r \in 1..Len(requests) :
        LET doc == requests[r].doc
        IN  \A c \in CategorySet :
               \A s \in {0, 100} :
                  (/\ AnsweredIn(doc.answers, c) # {}
                   /\ \A id \in AnsweredIn(doc.answers, c) :
                         OptionScoreOf(CatalogQuestion(id), doc.answers[id]) = s)
                  => doc.category_scores[c] = RInt(s)

\* three general questions of weights 1.5, 1.0 and 1.0 all answered yes
C18_Witness ==
    \E r \in 1..Len(requests) :
        /\ requests[r].doc.answers
              = [general_1 |-> "yes", general_2 |-> "yes", general_3 |-> "yes"]
        /\ CatalogQuestion("general_1").weight # CatalogQuestion("general_2").weight
        /\ requests[r].doc.category_scores.general = RInt(100)

\* 0 <= x <= 100
InRange(x) == x[1] >= 0 /\ x[1] <= 100 * x[2]

\* the total and the four category scores of a document are in [0,100]
ScoresInRange(doc) ==
    /\ InRange(doc.total_score)
    /\ DOMAIN doc.category_scores = CategorySet
    /\ \A c \in CategorySet : InRange(doc.category_scores[c])

\* C19: for every answer mapping each of the four category scores and the
\* total score lies in [0,100], and so does every total_score and category
\* score of every persisted assessment.
C19_ScoresInRange ==
    /\ \A r \in 1..Len(requests) : ScoresInRange(requests[r].doc)
    /\ \A i \in 1..Len(sri_collection) : ScoresInRange(sri_collection[i].doc)

\* a persisted assessment with one category strictly inside the range, one
\* at its top and two at its bottom
C19_Witness ==
    \E i \in 1..Len(sri_collection) :
        LET doc == sri_collection[i].doc
        IN  /\ doc.answers
                  = [general_1 |-> "yes", general_2 |-> "no", environment_1 |-> "yes",
                     unknown_q |-> "maybe"]
            /\ doc.category_scores.general = RInt(60)
            /\ doc.category_scores.environment = RInt(100)
            /\ doc.category_scores.social = RInt(0)
            /\ doc.total_score = RInt(40)

\* the request was answered by the route, before the service was called
RejectedByRoute(r) == "data" \in DOMAIN requests[r]

\* the payload of the request was empty or missing (get_json returned None
\* or raised), or its answers mapping was; the route hands the answers of an accepted payload to the service
\* unchanged, where they are the answers of the document
EmptyPayload(r) ==
    IF RejectedByRoute(r)
    THEN \/ requests[r].data.get_json \in {"none", "raises"}
         \/ /\ requests[r].data.get_json = "dict"
            /\ DOMAIN Get(requests[r].data.value, "answers", EmptyDict) = {}
    ELSE DOMAIN requests[r].doc.answers = {}

\* C20: a submit request with an empty or missing payload, or a missing or
\* empty answers mapping, is rejected with success=false and an error
\* before any scoring, overlay generation or persistence: no assessment
\* record is created and no user field is updated.
C20_EmptyPayloadRejected ==
    /\ \A r \in 1..Len(requests) :
          EmptyPayload(r) =>
             /\ RejectedByRoute(r)
             /\ requests[r].pc = "done"
             /\ requests[r].result[1].success = FALSE
             /\ "error" \in DOMAIN requests[r].result[1]
             /\ requests[r].doc = NoDoc
             /\ requests[r].ai_call = <<>>
             /\ RecordsOf(r) = {}
    /\ \A u \in Users :
          users_collection[u] # NewUser =>
             \E q \in 1..Len(requests) :
                /\ ~EmptyPayload(q)
                /\ requests[q].user_id = u
                /\ Succeeded(q)

\* a payload with a context and an empty answers mapping was rejected,
\* after a payload with answers had been scored, saved and acknowledged
C20_Witness ==
    /\ Len(requests) = 2
    /\ Succeeded(1)
    /\ Len(sri_collection) = 1
    /\ RejectedByRoute(2)
    /\ requests[2].data = JsonDict([answers |-> EmptyDict,
                                    context |-> [industry |-> "Technology"]])
    /\ requests[2].result[1].error = "No answers provided"
    /\ users_collection[requests[2].user_id].sustainability_profile.sri_score
          = requests[1].result[1].total_score

----------------------------------------------------------------------------
(* C21: no fault crosses the core boundary as an exception *)

\* what a finished submit returned is a result value, never an exception
ReturnsResult(r) ==
    /\ Len(requests[r].result) = 1
    /\ ~IsRaise(requests[r].result[1])
    /\ "success" \in DOMAIN requests[r].result[1]
    /\ requests[r].result[1].success \in BOOLEAN
    /\ ~requests[r].result[1].success => "error" \in DOMAIN requests[r].result[1]

\* the fault that made a finished submit fail, if any
FaultOf(r) == IF Done(r) /\ "error" \in DOMAIN requests[r].result[1]
              THEN requests[r].result[1].error ELSE "none"

\* C21: every finished submit returned a result value, a failure carrying
\* an error; a read whose persistence access failed returned absent
\* (get_latest), the empty list (get_history) or the zero-valued
\* has_assessment = false structure (get_scores_summary)
C21_NoExceptionCrossesCore ==
    /\ \A r \in 1..Len(requests) : Done(r) => ReturnsResult(r)
    /\ (resp.op = "get_latest" /\ ~resp.found) => resp.value = <<>>
    /\ (resp.op = "get_history" /\ ~resp.found) => resp.value = <<>>
    /\ (resp.op = "get_scores" /\ ~resp.found) =>
          /\ ~IsRaise(resp.value)
          /\ resp.value = ZeroScores
          /\ ~resp.value.has_assessment

\* a submit failed on update_one while the external call raised, and a
\* summary read failed for a user who has a persisted assessment
C21_Witness ==
    /\ \E r \in 1..Len(requests) :
          /\ FaultOf(r) = "update_one"
          /\ is_available /\ requests[r].ai_call = <<<<>>>>
    /\ resp.op = "get_scores" /\ ~resp.found /\ UserDocs(resp.user_id) # {}

----------------------------------------------------------------------------
(* C22: the user's denormalized state after a successful submit *)

\* the fields of the user document that submit's update_one writes
WrittenUserFields == {"profile_completed", "sustainability_profile"}
WrittenProfileFields == {"last_sri_date", "sri_score"}

\* between the two documents only profile_completed, last SRI date and last
\* SRI score may differ
OnlySriFieldsDiffer(old, new) ==
    /\ DOMAIN new = DOMAIN old
    /\ \A f \in DOMAIN old \ WrittenUserFields : new[f] = old[f]
    /\ DOMAIN new.sustainability_profile =
          DOMAIN old.sustainability_profile \cup WrittenProfileFields
    /\ \A k \in DOMAIN old.sustainability_profile \ WrittenProfileFields :
          new.sustainability_profile[k] = old.sustainability_profile[k]

\* request r returns success in this step
ReturnsSuccess(r) ==
    /\ requests[r].pc # "done"
    /\ requests'[r].pc = "done"
    /\ requests'[r].result[1].success

\* C22: in the step in which submit returns success for u, u's
\* profile_completed is true and u's last SRI score is the total_score of the
\* returned result; a step changes a user's document only when a submit of
\* that user returns success, and then only in profile_completed, last SRI
\* date and last SRI score
C22_SuccessUpdatesOwnUser ==
    [][/\ \A r \in 1..Len(requests) : ReturnsSuccess(r) =>
             LET user == users_collection'[requests[r].user_id]
             IN  /\ user.profile_completed
                 /\ user.sustainability_profile.sri_score
                       = requests'[r].result[1].total_score
        /\ \A u \in Users : users_collection'[u] # users_collection[u] =>
             /\ \E q \in 1..Len(requests) :
                   requests[q].user_id = u /\ ReturnsSuccess(q)
             /\ OnlySriFieldsDiffer(users_collection[u], users_collection'[u])
      ]_vars

\* a user's second submit returned success and overwrote the score of the
\* first with a different one, and the other user is as registered
C22_Witness ==
    /\ Len(requests) = 2 /\ Succeeded(1) /\ Succeeded(2)
    /\ requests[1].user_id = requests[2].user_id
    /\ requests[1].result[1].total_score # requests[2].result[1].total_score
    /\ LET user == users_collection[requests[1].user_id]
       IN  /\ user.role = "user" /\ user.is_active /\ user.profile_completed
           /\ user.sustainability_profile.sri_score
                 \in {requests[1].result[1].total_score,
                      requests[2].result[1].total_score}
    /\ \E v \in Users : users_collection[v] = NewUser

----------------------------------------------------------------------------
(* C23: submissions by different users are independent *)

\* this step is a step of a submit of user u: the submit begins or advances
StepOfUser(u) ==
    \E r \in 1..Len(requests') :
        /\ requests'[r].user_id = u
        /\ (r > Len(requests) \/ requests'[r] # requests[r])

\* what the three reads can return for u when their persistence read succeeds
ReadsOf(u) ==
    [latest |-> get_latest_assessment(u, TRUE),
     history |-> get_assessment_history(u, TRUE),
     scores |-> get_user_sri_scores(u, TRUE)]

\* the scores, trophy and stored record of r are those of r's own answers
AsIfAlone(r) ==
    LET doc == requests[r].doc
        scores == _calculate_category_scores(doc.answers, CatalogQuestionMap)
    IN  /\ doc.category_scores = scores
        /\ doc.total_score = TotalScore(scores)
        /\ doc.trophy_level = _get_trophy_level(TotalScore(scores))
        /\ Succeeded(r) =>
              /\ requests[r].result[1].total_score = TotalScore(scores)
              /\ requests[r].result[1].category_scores = scores
              /\ sri_collection[requests[r].assessment_id].doc = doc

\* C23: a step that is not a step of one of B's own submits (in particular
\* every step of a submit by another user A) changes neither what
\* get_latest, get_history and get_scores_summary return for B nor B's user
\* document; and the record and result of every submit are those computed
\* from its own answers, whatever ran beside it
C23_UsersIndependent ==
    /\ [](\A r \in 1..Len(requests) : AsIfAlone(r))
    /\ [][\A b \in Users : ~StepOfUser(b) =>
             /\ ReadsOf(b)' = ReadsOf(b)
             /\ users_collection'[b] = users_collection[b]
        ]_vars

\* two users submitted different answers concurrently, the later request was
\* stored first, both succeeded, and each user's latest record is its own
C23_Witness ==
    /\ Len(requests) = 2 /\ Succeeded(1) /\ Succeeded(2)
    /\ requests[1].user_id # requests[2].user_id
    /\ requests[1].doc.total_score # requests[2].doc.total_score
    /\ sri_collection[1].request = 2
    /\ \A r \in 1..2 :
          get_latest_assessment(requests[r].user_id, TRUE)
             = {<<sri_collection[requests[r].assessment_id]>>}

----------------------------------------------------------------------------
(* C24: one external call per submit at most, and no retry *)

\* the data _generate_ai_analysis_sync hands to the external adapter
AnalysisDataOf(doc) ==
    [answers |-> doc.answers,
     category_scores |-> doc.category_scores,
     total_score |-> TotalScore(doc.category_scores),
     context |-> [industry |-> doc.industry]]

\* C24: within one submit the external text-generation service is called at
\* most once; when the service is flagged unavailable it is not called at
\* all and the overlay is the rule-based fallback; when the single call
\* fails the overlay is the adapter's fallback, with no second call
C24_AtMostOneExternalCall ==
    \A r \in 1..Len(requests) :
        LET doc == requests[r].doc
        IN  /\ Len(requests[r].ai_call) <= 1
            /\ ~is_available =>
                  /\ Unavailable(r)
                  /\ doc.ai_analysis = _get_fallback_analysis(doc.category_scores)
            /\ CallRaised(r) =>
                  doc.ai_analysis = _get_fallback_sri_analysis(AnalysisDataOf(doc))

\* one submit whose single external call raised and one whose call returned
\* text, both finished
C24_Witness ==
    \E r, q \in 1..Len(requests) :
        /\ Done(r) /\ CallRaised(r)
        /\ Done(q) /\ Len(requests[q].ai_call) = 1 /\ ~CallRaised(q)

----------------------------------------------------------------------------
(* C25: the questionnaire catalog *)

\* the position of section c in the order general, environment, social, governance
SectionRank(c) == CHOOSE i \in 1..Len(Categories) : Categories[i] = c

\* the positions of question q in the catalog
CatalogPositions(q) ==
    {i \in 1..Len(_get_default_questions) : _get_default_questions[i] = q}

\* the returned questions are exactly the wanted positions of the catalog,
\* each once, in catalog order
ExactlyInCatalogOrder(value, wanted) ==
    /\ Len(value) = Cardinality(wanted)
    /\ \A i \in 1..Len(value) : CatalogPositions(value[i]) \cap wanted # {}
    /\ \A p \in wanted : \E i \in 1..Len(value) : value[i] = _get_default_questions[p]
    /\ \A i, j \in 1..Len(value) : i < j =>
          \A p \in CatalogPositions(value[i]), q \in CatalogPositions(value[j]) : p < q

\* C25: get_questions(category) returns exactly the catalog questions of
\* that category in catalog order; without a category it returns every
\* catalog question, sections in the order general, environment, social,
\* governance; question ids are unique; and the call is pure: it changes no
\* state and its result is the same for the same argument
C25_QuestionsOfCategory ==
    /\ [](resp.op = "get_questions" =>
            LET value == resp.value
                all == 1..Len(_get_default_questions)
            IN  /\ resp.category # "" =>
                      ExactlyInCatalogOrder(value,
                          {p \in all : _get_default_questions[p].category = resp.category})
                /\ resp.category = "" =>
                      /\ ExactlyInCatalogOrder(value, all)
                      /\ \A i, j \in 1..Len(value) : i < j =>
                            SectionRank(value[i].category) <= SectionRank(value[j].category)
                /\ \A i, j \in 1..Len(value) : i # j => value[i].id # value[j].id)
    /\ [][resp'.op = "get_questions" =>
            /\ UNCHANGED <<is_available, assessments_collection, sri_collection, users_collection, clock, requests>>
            /\ (resp.op = "get_questions" /\ resp.category = resp'.category) =>
                  resp'.value = resp.value
        ]_vars

\* the social section was asked for after a submit was stored: its eight
\* questions came back
C25_Witness ==
    /\ resp.op = "get_questions" /\ resp.category = "social"
    /\ Len(resp.value) = 8
    /\ Len(sri_collection) > 0

----------------------------------------------------------------------------
(* C26: the denormalized last score against the latest record *)

\* every submit of u that has begun has returned
AllCompleted(u) ==
    \A r \in 1..Len(requests) : requests[r].user_id = u => Done(r)

\* C26: once every submission of u has completed, concurrent ones included,
\* the sri_score of u's sustainability profile equals the total_score of
\* the record that get_latest(u) returns
C26_ScoreMatchesLatest ==
    \A u \in Users : AllCompleted(u) =>
        \A latest \in get_latest_assessment(u, TRUE) : latest # <<>> =>
            LET profile == users_collection[u].sustainability_profile
            IN  /\ "sri_score" \in DOMAIN profile
                /\ profile.sri_score = latest[1].doc.total_score

----------------------------------------------------------------------------
(* C27: the summary against the persisted assessments *)

\* what C27 says of a summary get_scores_summary(u) returned
SummaryIsRight(u, value) ==
    /\ value.has_assessment <=> Persisted(u) # {}
    /\ value.has_assessment =>
          \E d \in Persisted(u) :
              /\ GreatestCreatedAt(d, Persisted(u))
              /\ value.total = d.doc.total_score
              /\ value.categories = d.doc.category_scores
              /\ value.trophy_level = d.doc.trophy_level
              /\ value.ai_analysis = d.doc.ai_analysis

\* C27 as stated: in every reachable state, also when the persistence read
\* fails, get_scores_summary(u) reports has_assessment = true with the
\* total, categories, trophy_level and ai_analysis of u's most recent
\* persisted assessment if and only if an assessment is persisted for u.
C27_SummaryAsStated ==
    resp.op = "get_scores" => SummaryIsRight(resp.user_id, resp.value)

\* C27 as the code has it: when the persistence read succeeds the summary
\* reports has_assessment = true with the values of a persisted assessment
\* of u of greatest created_at if and only if an assessment is persisted
\* for u; when the read fails the summary is the zero-valued structure with
\* has_assessment = false, whatever is persisted.
C27_SummaryWhenReadSucceeds ==
    resp.op = "get_scores" =>
        /\ resp.found => SummaryIsRight(resp.user_id, resp.value)
        /\ ~resp.found => resp.value = ZeroScores

\* the summary of a user with two records of different totals, the one
\* stored first being the more recent, read successfully
C27_Witness ==
    /\ resp.op = "get_scores" /\ resp.found
    /\ Len(sri_collection) = 2
    /\ \A i \in 1..2 : sri_collection[i].doc.user_id = resp.user_id
    /\ sri_collection[1].doc.created_at > sri_collection[2].doc.created_at
    /\ sri_collection[1].doc.total_score # sri_collection[2].doc.total_score
    /\ resp.value.has_assessment
    /\ resp.value.total = sri_collection[1].doc.total_score

----------------------------------------------------------------------------
(* C28, C29: scoring is monotone.  A submit of an answer mapping is        *)
(* followed by a submit of the same mapping with one answer changed        *)

MaxCompareAnswers == 3

\* catalog questions of weight 1.5 and 1.0, two of one category, and an id
\* the catalog does not have
CompareIds ==
    {"general_1", "general_2", "environment_1", "social_1", "governance_1",
     "unknown_q"}

CompareAnswers ==
    UNION {[ids -> AnswerValues] :
              ids \in {d \in SUBSET CompareIds : Cardinality(d) <= MaxCompareAnswers}}

\* the answers of the first submit with the "no" of one catalog question
\* changed to "yes", submitted
SubmitRaised(id) ==
    /\ Len(requests) = 1
    /\ id \in DOMAIN requests[1].doc.answers \cap QuestionIds
    /\ requests[1].doc.answers[id] = "no"
    /\ \E context \in SubmitContexts :
          SubmitBegin("u1", [requests[1].doc.answers EXCEPT ![id] = "yes"],
                      context, <<>>)

\* the answers of the first submit without one entry, submitted
SubmitWithout(id) ==
    /\ Len(requests) = 1
    /\ id \in DOMAIN requests[1].doc.answers
    /\ \E context \in SubmitContexts :
          SubmitBegin("u1", Without(requests[1].doc.answers, {id}), context, <<>>)

NextCompare ==
    \/ /\ requests = <<>>
       /\ \E answers \in CompareAnswers, context \in SubmitContexts :
             SubmitBegin("u1", answers, context, <<>>)
    \/ \E id \in CompareIds : SubmitRaised(id)
    \/ \E id \in CompareIds : SubmitWithout(id)
    \/ \E r \in 1..Len(requests) : InsertOneOk(r)
    \/ \E r \in 1..Len(requests) : UpdateUserOk(r)

SpecCompare == Init /\ [][NextCompare]_vars

\* the trophy tiers in rising order
TierRank(trophy_level) ==
    CASE trophy_level = "none" -> 0
      [] trophy_level = "advocate" -> 1
      [] trophy_level = "leader" -> 2
      [] trophy_level = "champion" -> 3

\* the second mapping is the first with the "no" of catalog question id
\* changed to "yes"
RaisedAt(first, second, id) ==
    /\ id \in QuestionIds
    /\ DOMAIN second = DOMAIN first
    /\ id \in DOMAIN first
    /\ first[id] = "no" /\ second[id] = "yes"
    /\ \A other \in DOMAIN first \ {id} : second[other] = first[other]

\* the second mapping is the first without its entry for catalog question
\* id, which was answered with a value that scores 0
ZeroRemovedAt(first, second, id) ==
    /\ id \in QuestionIds
    /\ id \in DOMAIN first
    /\ OptionScoreOf(CatalogQuestion(id), first[id]) = 0
    /\ second = Without(first, {id})

\* category c, the total and the trophy tier of the second document are
\* not below those of the first, and the other categories are equal
NoLowerIn(first, second, c) ==
    /\ RGeq(second.category_scores[c], first.category_scores[c])
    /\ \A other \in CategorySet \ {c} :
          second.category_scores[other] = first.category_scores[other]
    /\ RGeq(second.total_score, first.total_score)
    /\ TierRank(second.trophy_level) >= TierRank(first.trophy_level)

\* C28: changing the answer of one answered catalog question from "no" to
\* "yes" never decreases that question's category score, the total score or
\* the trophy tier, and leaves the other three category scores unchanged
C28_RaisingAnAnswerNeverLowers ==
    Len(requests) = 2 =>
        \A id \in QuestionIds :
            RaisedAt(requests[1].doc.answers, requests[2].doc.answers, id) =>
                NoLowerIn(requests[1].doc, requests[2].doc,
                          CatalogQuestion(id).category)

\* a "no" was changed to "yes" and both submits returned: the category
\* score, the total and the trophy tier all rose
C28_Witness ==
    /\ Len(requests) = 2 /\ Succeeded(1) /\ Succeeded(2)
    /\ \E id \in QuestionIds :
          /\ RaisedAt(requests[1].doc.answers, requests[2].doc.answers, id)
          /\ RGt(requests[2].doc.category_scores[CatalogQuestion(id).category],
                 requests[1].doc.category_scores[CatalogQuestion(id).category])
          /\ RGt(requests[2].doc.total_score, requests[1].doc.total_score)
    /\ TierRank(requests[2].doc.trophy_level) > TierRank(requests[1].doc.trophy_level)

\* C29: removing an entry of a catalog question that was answered with a
\* 0-score option leaves that question's category score, the total score
\* and the trophy tier equal or higher: a "no" never ranks above an
\* unanswered question
C29_OmittingAZeroNeverLowers ==
    Len(requests) = 2 =>
        \A id \in QuestionIds :
            ZeroRemovedAt(requests[1].doc.answers, requests[2].doc.answers, id) =>
                NoLowerIn(requests[1].doc, requests[2].doc,
                          CatalogQuestion(id).category)

\* a "no" beside a "yes" of the same category was removed and the category
\* score rose; both submits returned
C29_Witness ==
    /\ Len(requests) = 2 /\ Succeeded(1) /\ Succeeded(2)
    /\ \E id \in QuestionIds :
          /\ ZeroRemovedAt(requests[1].doc.answers, requests[2].doc.answers, id)
          /\ requests[1].doc.answers[id] = "no"
          /\ RGt(requests[2].doc.category_scores[CatalogQuestion(id).category],
                 requests[1].doc.category_scores[CatalogQuestion(id).category])
          /\ RGt(requests[2].doc.total_score, requests[1].doc.total_score)

----------------------------------------------------------------------------
(* the legacy assessment path: data_service.py, save_assessment_data and *)
(* _calculate_assessment_scores                                          *)

\* strings whose characters the code inspects are sequences of characters
UpperLetters ==
    <<"A", "B", "C", "D", "E", "F", "G", "H", "I", "J", "K", "L", "M",
      "N", "O", "P", "Q", "R", "S", "T", "U", "V", "W", "X", "Y", "Z">>
LowerLetters ==
    <<"a", "b", "c", "d", "e", "f", "g", "h", "i", "j", "k", "l", "m",
      "n", "o", "p", "q", "r", "s", "t", "u", "v", "w", "x", "y", "z">>

\* str.lower()
LowerChar(c) ==
    IF \E i \in 1..Len(UpperLetters) : UpperLetters[i] = c
    THEN LowerLetters[CHOOSE i \in 1..Len(UpperLetters) : UpperLetters[i] = c]
    ELSE c
Lower(s) == [i \in 1..Len(s) |-> LowerChar(s[i])]

\* sub in s
Contains(sub, s) ==
    \E i \in 0..(Len(s) - Len(sub)) :
        \A k \in 1..Len(sub) : s[i + k] = sub[k]

\* the keys and scores of score_map, lines 282-294
score_map ==
    << [key |-> <<"s","t","r","o","n","g","l","y","_","a","g","r","e","e">>, score |-> 100],
       [key |-> <<"a","g","r","e","e">>, score |-> 80],
       [key |-> <<"n","e","u","t","r","a","l">>, score |-> 60],
       [key |-> <<"d","i","s","a","g","r","e","e">>, score |-> 40],
       [key |-> <<"s","t","r","o","n","g","l","y","_","d","i","s","a","g","r","e","e">>, score |-> 20],
       [key |-> <<"y","e","s">>, score |-> 100],
       [key |-> <<"n","o">>, score |-> 0],
       [key |-> <<"s","o","m","e","t","i","m","e","s">>, score |-> 60],
       [key |-> <<"o","f","t","e","n">>, score |-> 80],
       [key |-> <<"a","l","w","a","y","s">>, score |-> 100],
       [key |-> <<"n","e","v","e","r">>, score |-> 0] >>

\* score_map.get(key, default)
ScoreMapGet(key, default) ==
    IF \E i \in 1..Len(score_map) : score_map[i].key = key
    THEN score_map[CHOOSE i \in 1..Len(score_map) : score_map[i].key = key].score
    ELSE default

\* answer values by Python type: a number (int or float, as a fraction), a
\* str, or a value of another type (None, a list)
Number(n, d) == [type |-> "number", number |-> R(n, d)]
Str(s) == [type |-> "str", text |-> s]
OtherValue == [type |-> "other"]

\* lines 278-297: the score of one answer
LegacyAnswerScore(answer) ==
    IF answer.type = "number"
    THEN IF RLt(answer.number, RInt(0)) THEN RInt(0)
         ELSE IF RGt(answer.number, RInt(100)) THEN RInt(100)
         ELSE answer.number
    ELSE IF answer.type = "str"
    THEN RInt(ScoreMapGet(Lower(answer.text), 50))
    ELSE RInt(50)

\* lines 302-309: the category an id is filed under
LegacyCategory(question_id) ==
    LET id == Lower(question_id)
    IN  IF Contains(<<"e","n","v">>, id)
           \/ Contains(<<"e","n","v","i","r","o","n","m","e","n","t">>, id)
        THEN "environment"
        ELSE IF Contains(<<"s","o","c","i","a","l">>, id)
                \/ Contains(<<"c","o","m","m","u","n","i","t","y">>, id)
        THEN "social"
        ELSE IF Contains(<<"g","o","v">>, id)
                \/ Contains(<<"p","o","l","i","c","y">>, id)
        THEN "governance"
        ELSE "general"

\* the sum of the scores of the answers whose id is in ids
RECURSIVE LegacySum(_, _)
LegacySum(answers, ids) ==
    IF ids = {} THEN RInt(0)
    ELSE LET id == CHOOSE q \in ids : TRUE
         IN  RAdd(LegacyAnswerScore(answers[id]), LegacySum(answers, ids \ {id}))

\* round(x, 1) of x >= 0: the nearest tenth, an exact tie going to the even
\* tenth.  The values rounded here are sums of the scores divided by 1..5;
\* their ties are quarters, which a float holds exactly
Round1(x) ==
    LET tenths == (10 * x[1]) \div x[2]
        rest   == (10 * x[1]) % x[2]
    IN  IF 2 * rest < x[2] THEN R(tenths, 10)
        ELSE IF 2 * rest > x[2] THEN R(tenths + 1, 10)
        ELSE IF tenths % 2 = 0 THEN R(tenths, 10)
        ELSE R(tenths + 1, 10)

\* a category score that is the average of the scores filed under the category
AverageOfCategory(answers, category) ==
    LET ids == {id \in DOMAIN answers : LegacyCategory(id) = category}
    IN  IF ids = {} THEN RInt(0)
        ELSE RDiv(LegacySum(answers, ids), RInt(Cardinality(ids)))

\* lines 315-317: the sum of the scores filed under the category, divided by
\* max(1, total_questions // 4)
LegacyCategoryScore(answers, category) ==
    LET ids == {id \in DOMAIN answers : LegacyCategory(id) = category}
        total_questions == Cardinality(DOMAIN answers)
        quarter == total_questions \div 4
        category_questions == IF quarter > 1 THEN quarter ELSE 1
    IN  RDiv(LegacySum(answers, ids), RInt(category_questions))

_calculate_assessment_scores(answers) ==
    LET total_questions == Cardinality(DOMAIN answers)
    IN  IF total_questions = 0
        THEN [total |-> RInt(0), categories |-> [c \in CategorySet |-> RInt(0)]]
        ELSE [total |-> Round1(RDiv(LegacySum(answers, DOMAIN answers),
                                    RInt(total_questions))),
              categories |->
                 [c \in CategorySet |-> Round1(LegacyCategoryScore(answers, c))]]

\* question ids of the legacy questionnaire: one per branch of lines 302-309,
\* one of them in upper case
LegacyIds ==
    { <<"e","n","v","_","1">>,
      <<"E","N","V","_","2">>,
      <<"c","o","m","m","u","n","i","t","y">>,
      <<"p","o","l","i","c","y","_","1">>,
      <<"q","1">> }

\* a number below 0, a number above 100, a keyword in mixed case, the
\* keyword no, a word score_map does not have, a non-string
LegacyValues ==
    { Number(-5, 1), Number(150, 1),
      Str(<<"Y","e","s">>), Str(<<"n","o">>), Str(<<"m","a","y","b","e">>),
      OtherValue }

MaxLegacyAnswers == 3

LegacyAnswers ==
    UNION {[ids -> LegacyValues] :
              ids \in {d \in SUBSET LegacyIds : Cardinality(d) <= MaxLegacyAnswers}}

\* payloads with answers and a payload without the answers key
LegacyData == {[answers |-> a] : a \in LegacyAnswers} \cup {[industry |-> "Technology"]}

\* outcomes of the two persistence calls
LegacyFaults == {"none", "insert_one", "update_one"}

\* the users update_one({'_id': user_id}) matches: user_id is the str of the
\* id (models.py, User.id) and the stored _id is an ObjectId
LegacyMatched(user_id) == {u \in Users : [oid |-> u] = [str |-> user_id]}

\* save_assessment_data, lines 19-59
SaveAssessmentData(user_id, assessment_data, fault) ==
    LET answers == Get(assessment_data, "answers", EmptyDict)
        scores == _calculate_assessment_scores(answers)
        new_id == Len(assessments_collection) + 1
        record == [_id |-> new_id,
                   doc |-> [user_id |-> user_id,
                            total_score |-> scores.total,
                            category_scores |-> scores.categories,
                            answers |-> answers,
                            created_at |-> clock,
                            updated_at |-> clock,
                            status |-> "completed"]]
    IN  /\ assessments_collection' =
              IF fault = "insert_one" THEN assessments_collection
              ELSE Append(assessments_collection, record)
        /\ users_collection' =
              IF fault = "none"
              THEN [u \in Users |->
                      IF u \in LegacyMatched(user_id)
                      THEN SetFields(users_collection[u],
                               [profile_completed |-> TRUE, last_assessment |-> clock])
                      ELSE users_collection[u]]
              ELSE users_collection
        /\ resp' = [op |-> "save_assessment_data",
                    user_id |-> user_id,
                    answers |-> answers,
                    result |-> IF fault = "none"
                               THEN [success |-> TRUE, assessment_id |-> new_id,
                                     scores |-> scores]
                               ELSE FailureResult(fault)]
        /\ UNCHANGED <<is_available, sri_collection, clock, requests>>

NextLegacy ==
    /\ resp = NoResp
    /\ \E user_id \in PipelineUsers, assessment_data \in LegacyData, fault \in LegacyFaults :
          SaveAssessmentData(user_id, assessment_data, fault)

SpecLegacy == Init /\ [][NextLegacy]_vars

\* the scores a legacy save returned
LegacySaved == resp.op = "save_assessment_data" /\ resp.result.success

\* C30: on the legacy path, for every answer mapping the total score and
\* each of the four category scores lie in [0, 100]: a numeric answer is
\* clamped to [0, 100], a keyword string maps to a score in [0, 100], and
\* each category score is the average of the scores of the questions
\* assigned to that category
C30_LegacyScoresInRange ==
    LegacySaved =>
        LET scores == resp.result.scores
        IN  /\ InRange(scores.total)
            /\ \A c \in CategorySet :
                  /\ InRange(scores.categories[c])
                  /\ scores.categories[c]
                        = Round1(AverageOfCategory(resp.answers, c))

====
